---- MODULE Spec2Model ----
(***************************************************************************)
(* A model of nimby: the domain registry (Controller), the weighted        *)
(* balancer snapshots (WeightedRandom / empty), request dispatch and the   *)
(* directory synchronizer (Controller.Updater).                            *)
(*                                                                         *)
(* Go values are modelled as TLA+ values; Go maps and slices, which are    *)
(* references, are modelled as addresses into two heaps (maps, slices), so *)
(* that sharing between a stored snapshot and a reader's copy is visible.  *)
(***************************************************************************)
EXTENDS Integers, Sequences, FiniteSets, TLC

\* ------------------------------------------------------------------------
\* Bounds of the model
\* ------------------------------------------------------------------------
\* Number of heap cells for maps and for slices.
MaxAddr == 5
\* The random source of Next yields values 0 .. RandBound-1.
RandBound == 4

\* ------------------------------------------------------------------------
\* Tags (helpers.go)
\* ------------------------------------------------------------------------
DomainTagPrefix == "nimby-domain:"
WeightTagPrefix == "nimby-weight:"
ProtoTagPrefix == "nimby-proto:"
PathTagPrefix == "nimby-path:"

\* A tag is a prefix and the text after it; the text of a weight tag is a
\* sequence of characters, the text of the other tags is an opaque string.
Tag(prefix, val) == [prefix |-> prefix, val |-> val]

\* strings.CutPrefix(tag, prefix): the rest of the tag and whether it matched
CutPrefix(tag, prefix) ==
    IF tag.prefix = prefix THEN [value |-> tag.val, has |-> TRUE]
                           ELSE [value |-> "", has |-> FALSE]

DigitValue ==
    [c \in {"0", "1", "2", "3", "4", "5", "6", "7", "8", "9"} |->
        CASE c = "0" -> 0 [] c = "1" -> 1 [] c = "2" -> 2 [] c = "3" -> 3
          [] c = "4" -> 4 [] c = "5" -> 5 [] c = "6" -> 6 [] c = "7" -> 7
          [] c = "8" -> 8 [] c = "9" -> 9]

\* Largest value of an 8 bit unsigned integer (bitSize 8 in WeightTag)
MaxUint8 == 255

\* strconv.ParseUint(s, 10, 8), left to right: a character that is no digit
\* gives (0, syntax error); a value above 255 gives (255, range error) as
\* soon as it is exceeded; the empty text is a syntax error.
RECURSIVE ParseDigits(_, _, _)
ParseDigits(s, i, n) ==
    IF i > Len(s) THEN [value |-> n, err |-> "nil"]
    ELSE IF s[i] \notin DOMAIN DigitValue THEN [value |-> 0, err |-> "syntax"]
    ELSE LET n1 == n * 10 + DigitValue[s[i]]
         IN  IF n1 > MaxUint8 THEN [value |-> MaxUint8, err |-> "range"]
             ELSE ParseDigits(s, i + 1, n1)

ParseUint(s) ==
    IF Len(s) = 0 THEN [value |-> 0, err |-> "syntax"] ELSE ParseDigits(s, 1, 0)

\* DomainTag: the first tag with the domain prefix
RECURSIVE DomainTagFrom(_, _)
DomainTagFrom(tags, i) ==
    IF i > Len(tags) THEN [value |-> "", has |-> FALSE]
    ELSE LET cut == CutPrefix(tags[i], DomainTagPrefix)
         IN  IF cut.has THEN cut ELSE DomainTagFrom(tags, i + 1)

DomainTag(tags) == DomainTagFrom(tags, 1)

\* WeightTag without the test for a value above zero
RECURSIVE WeightTagFromAnyValue(_, _)
WeightTagFromAnyValue(tags, i) ==
    IF i > Len(tags) THEN [value |-> 1, has |-> FALSE]
    ELSE LET cut == CutPrefix(tags[i], WeightTagPrefix)
         IN  IF cut.has
             THEN [value |-> ParseUint(cut.value).value, has |-> TRUE]
             ELSE WeightTagFromAnyValue(tags, i + 1)

\* WeightTag: the first weight tag that parses to a value above zero,
\* otherwise the default 1
RECURSIVE WeightTagFrom(_, _)
WeightTagFrom(tags, i) ==
    IF i > Len(tags) THEN [value |-> 1, has |-> FALSE]
    ELSE LET cut == CutPrefix(tags[i], WeightTagPrefix)
         IN  IF cut.has /\ ParseUint(cut.value).value > 0
             THEN [value |-> ParseUint(cut.value).value, has |-> TRUE]
             ELSE WeightTagFrom(tags, i + 1)

WeightTag(tags) == WeightTagFrom(tags, 1)

RECURSIVE ProtoTagFrom(_, _)
ProtoTagFrom(tags, i) ==
    IF i > Len(tags) THEN [value |-> "", has |-> FALSE]
    ELSE LET cut == CutPrefix(tags[i], ProtoTagPrefix)
         IN  IF cut.has THEN cut ELSE ProtoTagFrom(tags, i + 1)

ProtoTag(tags) == ProtoTagFrom(tags, 1)

RECURSIVE PathTagFrom(_, _)
PathTagFrom(tags, i) ==
    IF i > Len(tags) THEN [value |-> "", has |-> FALSE]
    ELSE LET cut == CutPrefix(tags[i], PathTagPrefix)
         IN  IF cut.has THEN cut ELSE PathTagFrom(tags, i + 1)

PathTag(tags) == PathTagFrom(tags, 1)

\* UpstreamService: the URL of a service record
UpstreamService(service) ==
    [Scheme |-> IF ProtoTag(service.Tags).has THEN ProtoTag(service.Tags).value
                ELSE "http",
     Host   |-> service.Address,
     Path   |-> IF PathTag(service.Tags).has THEN PathTag(service.Tags).value
                ELSE "/"]

\* ------------------------------------------------------------------------
\* Service records (api.ServiceRegistration, the fields the code reads)
\* ------------------------------------------------------------------------
Service(id, name, tags) ==
    [ID |-> id, ServiceName |-> name, Address |-> id, Tags |-> tags]

NoService == Service("", "", <<>>)

\* The service records the registry is driven with by its clients:
\* two instances on domain "a" with and without a weight and a path tag, one on domain
\* "b", one without a domain tag, and one with a zero weight tag.
TagsA1 == <<Tag(DomainTagPrefix, "a")>>
TagsA2 == <<Tag(DomainTagPrefix, "a"), Tag(WeightTagPrefix, <<"2">>),
            Tag(PathTagPrefix, "/v2")>>
TagsA0 == <<Tag(WeightTagPrefix, <<"0">>), Tag(DomainTagPrefix, "a")>>
TagsB1 == <<Tag(PathTagPrefix, "/b"), Tag(DomainTagPrefix, "b")>>
TagsNone == <<Tag(WeightTagPrefix, <<"2">>)>>

ClientServices ==
    { Service("s1", "web", TagsA1), Service("s1", "web", TagsA2),
      Service("s2", "web", TagsA2), Service("s2", "web", TagsA0),
      Service("s1", "api", TagsB1), Service("s2", "api", TagsNone) }

Hosts == {"a", "b", "c"}

\* ------------------------------------------------------------------------
\* Tasks
\* ------------------------------------------------------------------------
Clients == {"m1", "m2"}
Dispatchers == {"d1"}
UpdaterTask == "updater"
Tasks == Clients \cup Dispatchers \cup {UpdaterTask}
NoTask == "none"

\* ------------------------------------------------------------------------
\* Handler values (balancer.go)
\* ------------------------------------------------------------------------
Addr == 1 .. MaxAddr
\* the nil map and the nil slice
NilAddr == 0

\* WeightedUpstream: one backend; held by value, it is never written after
\* it is built
WeightedUpstream(service, weight) ==
    [ID |-> service.ID, Weight |-> weight, Endpoint |-> UpstreamService(service)]

\* WeightedRandom: Upstreams is a reference to a map, weighted a reference to
\* a slice, Total is held by value
WeightedRandom(ups, total, weighted) ==
    [kind |-> "WeightedRandom", Upstreams |-> ups, Total |-> total,
     weighted |-> weighted]

\* the terminal empty handler
empty == [kind |-> "empty", Upstreams |-> NilAddr, Total |-> 0, weighted |-> NilAddr]

\* the nil Handler of a local variable that holds nothing
NilHandler == [kind |-> "nil", Upstreams |-> NilAddr, Total |-> 0, weighted |-> NilAddr]

\* NewBalancer: a WeightedRandom with a nil map, Total 0 and a nil slice
NewBalancer(tags) == WeightedRandom(NilAddr, 0, NilAddr)

EmptyMap == << >>

VARIABLES
    registry,   \* Controller's sync.Map: domain -> Handler, on the stored keys
    maps,       \* heap of Go maps: address -> (id -> WeightedUpstream)
    slices,     \* heap of Go slices: address -> sequence of WeightedUpstream
    mu,         \* Controller.mu: the task that holds it, or NoTask
    pc,         \* per task: where it is inside Add, Del or ServeHTTP
    arg,        \* per task: the service record of its Add or Del call
    host,       \* per task: the Host of its request
    balancer,   \* per task: the Handler it loaded from the registry
    upstream,   \* per task: the upstream Next selected
    resp,       \* per task: the response status of its request
    loadMu,     \* per task: who held the mutex when its request loaded
    seqReg      \* the registry that results from applying the completed
                \* Add and Del calls one after the other (id -> weight)

regVars == <<registry, maps, slices, mu, pc, arg, host, balancer, upstream, resp, loadMu,
             seqReg>>

VARIABLES
    WatchServices,  \* Controller.Options.WatchServices
    upc,            \* Updater: where it is
    services,       \* Updater: the local slice services
    si,             \* Updater: position of the listing loop in services
    index,          \* Updater: the local index, the resume index
    entries,        \* Updater: entries of the current listing not yet added
    feed,           \* the events channel returned by Stream
    batch,          \* Updater: events of the received batch not yet handled
    err,            \* Updater: the error it returned
    ctxDone,        \* whether the context is cancelled
    dirMembers,     \* directory: the registered service instances
    dirIndex,       \* directory: the modify index of the last change
    dirLog,         \* directory: the events committed so far
    hist            \* what the Updater has seen so far (for the properties):
                    \* the listing indexes, the events received, the directory
                    \* call that failed, where it was when the context was cancelled,
                    \* and what the last Add and Del of a client found

syncVars == <<WatchServices, upc, services, si, index, entries, feed, batch, err, ctxDone,
              dirMembers, dirIndex, dirLog, hist>>

VARIABLES
    secretID,   \* the credential set on the API client (SetSecretID)
    tokenFile,  \* the file at TokenPath: whether it can be read, and its text
    tpc,        \* TokenReloader: where it is
    terr,       \* TokenReloader: its named result err
    reload      \* whether a signal waits in the reload channel

tokenVars == <<secretID, tokenFile, tpc, terr, reload>>

\* the map an address refers to; the nil map reads as an empty map
MapAt(ms, a) == IF a = NilAddr THEN EmptyMap ELSE ms[a]
SliceAt(ss, a) == IF a = NilAddr THEN << >> ELSE ss[a]

\* Addresses a running program can still reach: those of the handlers stored
\* in the registry and of the handlers held in the tasks' local variables.
\* Everything else is garbage to the Go runtime and may be reused by make.
MapRefs(reg, bal) ==
    ({reg[d].Upstreams : d \in DOMAIN reg} \cup {bal[t].Upstreams : t \in Tasks})
        \ {NilAddr}
SliceRefs(reg, bal) ==
    ({reg[d].weighted : d \in DOMAIN reg} \cup {bal[t].weighted : t \in Tasks})
        \ {NilAddr}

Min(S) == CHOOSE a \in S : \A b \in S : a <= b

\* make(map...) and make([]...): an address that nothing refers to
FreshMap == Min(Addr \ MapRefs(registry, balancer))
FreshSlice == Min(Addr \ SliceRefs(registry, balancer))
CanMake ==
    /\ Addr \ MapRefs(registry, balancer) # {}
    /\ Addr \ SliceRefs(registry, balancer) # {}

\* the heap after the runtime has reclaimed what is not in live
Sweep(h, live) == [a \in Addr |-> IF a \in live THEN h[a] ELSE << >>]

RECURSIVE SumWeights(_)
SumWeights(ups) ==
    IF DOMAIN ups = {} THEN 0
    ELSE LET id == CHOOSE i \in DOMAIN ups : TRUE
         IN  ups[id].Weight
               + SumWeights([i \in DOMAIN ups \ {id} |-> ups[i]])

\* weight copies of one backend
Repeat(backend, n) == [i \in 1 .. n |-> backend]

\* all orders in which a range over a Go map with these keys can run
Orders(keys) ==
    { o \in [1 .. Cardinality(keys) -> keys] :
        \A i, j \in 1 .. Cardinality(keys) : i # j => o[i] # o[j] }

\* Rehash: the table built by ranging over the map in the given order
RECURSIVE RehashFrom(_, _, _)
RehashFrom(ups, order, i) ==
    IF i > Len(order) THEN << >>
    ELSE Repeat(ups[order[i]], ups[order[i]].Weight) \o RehashFrom(ups, order, i + 1)

Rehash(ups, order) == RehashFrom(ups, order, 1)

\* The result of a balancer operation: the Handler it returns and the heaps
\* after it ran.
Result(h, ms, ss) == [handler |-> h, maps |-> ms, slices |-> ss]

\* Add that writes the new backend into the receiver's own map and table
WeightedRandomAddInPlace(b, service, order) ==
    IF service.ID \in DOMAIN MapAt(maps, b.Upstreams)
    THEN Result(b, maps, slices)
    ELSE LET weight   == WeightTag(service.Tags).value
             old      == MapAt(maps, b.Upstreams)
             backends == [id \in DOMAIN old \cup {service.ID} |->
                            IF id = service.ID
                            THEN WeightedUpstream(service, weight)
                            ELSE old[id]]
             total    == weight + SumWeights(old)
             am       == IF b.Upstreams = NilAddr THEN FreshMap ELSE b.Upstreams
             as       == IF b.weighted = NilAddr THEN FreshSlice ELSE b.weighted
         IN  Result(WeightedRandom(am, total, as),
                    [maps EXCEPT ![am] = backends],
                    [slices EXCEPT ![as] = Rehash(backends, order)])

\* Add without the test for an id that is present
WeightedRandomAddOverwrite(b, service, order) ==
    LET weight   == WeightTag(service.Tags).value
        old      == MapAt(maps, b.Upstreams)
        backends == [id \in DOMAIN old \cup {service.ID} |->
                       IF id = service.ID
                       THEN WeightedUpstream(service, weight)
                       ELSE old[id]]
        total    == weight + SumWeights(old)
    IN  Result(WeightedRandom(FreshMap, total, FreshSlice),
               [maps EXCEPT ![FreshMap] = backends],
               [slices EXCEPT ![FreshSlice] = Rehash(backends, order)])

\* WeightedRandom.Add on the receiver's copy; order is the iteration order
\* of Rehash over the new map
WeightedRandomAdd(b, service, order) ==
    IF service.ID \in DOMAIN MapAt(maps, b.Upstreams)
    THEN Result(b, maps, slices)
    ELSE LET weight   == WeightTag(service.Tags).value
             old      == MapAt(maps, b.Upstreams)
             backends == [id \in DOMAIN old \cup {service.ID} |->
                            IF id = service.ID
                            THEN WeightedUpstream(service, weight)
                            ELSE old[id]]
             total    == weight + SumWeights(old)
         IN  Result(WeightedRandom(FreshMap, total, FreshSlice),
                    [maps EXCEPT ![FreshMap] = backends],
                    [slices EXCEPT ![FreshSlice] = Rehash(backends, order)])

\* Del that takes the weight of the record it is passed off the Total
WeightedRandomDelByTag(b, service, order) ==
    IF service.ID \notin DOMAIN MapAt(maps, b.Upstreams)
    THEN Result(b, maps, slices)
    ELSE LET old      == MapAt(maps, b.Upstreams)
             backends == [id \in DOMAIN old \ {service.ID} |-> old[id]]
             weight   == WeightTag(service.Tags).value
             total    == IF b.Total > weight THEN b.Total - weight ELSE 0
         IN  IF DOMAIN backends = {}
             THEN Result(empty, [maps EXCEPT ![FreshMap] = backends], slices)
             ELSE Result(WeightedRandom(FreshMap, total, FreshSlice),
                         [maps EXCEPT ![FreshMap] = backends],
                         [slices EXCEPT ![FreshSlice] = Rehash(backends, order)])

\* WeightedRandom.Del on the receiver's copy
WeightedRandomDel(b, service, order) ==
    IF service.ID \notin DOMAIN MapAt(maps, b.Upstreams)
    THEN Result(b, maps, slices)
    ELSE LET old      == MapAt(maps, b.Upstreams)
             backends == [id \in DOMAIN old \ {service.ID} |-> old[id]]
             total    == SumWeights(backends)
         IN  IF DOMAIN backends = {}
             THEN Result(empty, [maps EXCEPT ![FreshMap] = backends], slices)
             ELSE Result(WeightedRandom(FreshMap, total, FreshSlice),
                         [maps EXCEPT ![FreshMap] = backends],
                         [slices EXCEPT ![FreshSlice] = Rehash(backends, order)])

\* empty.Add and empty.Del
emptyAdd(service, order) == WeightedRandomAdd(NewBalancer(service.Tags), service, order)
emptyDel(service) == Result(empty, maps, slices)

\* the Handler interface: the method of the value's dynamic type
HandlerAdd(h, service, order) ==
    IF h.kind = "empty" THEN emptyAdd(service, order)
    ELSE WeightedRandomAdd(h, service, order)
HandlerDel(h, service, order) ==
    IF h.kind = "empty" THEN emptyDel(service)
    ELSE WeightedRandomDel(h, service, order)
\* Empty that answers false for every handler
HandlerEmptyNever(h) == FALSE

HandlerEmpty(h) == h.kind = "empty"

\* the keys the map of the handler returned by an Add or Del of service on b
\* can have: the possible iteration orders of its Rehash
AddOrders(b, service) == Orders(DOMAIN MapAt(maps, b.Upstreams) \cup {service.ID})
DelOrders(b, service) == Orders(DOMAIN MapAt(maps, b.Upstreams) \ {service.ID})

\* ------------------------------------------------------------------------
\* The registry as a plain mapping, and Add and Del applied one at a time
\* ------------------------------------------------------------------------
\* the upstream ids and stored weights of each stored domain
Abs(reg, ms) ==
    [d \in DOMAIN reg |->
        [id \in DOMAIN MapAt(ms, reg[d].Upstreams) |->
            MapAt(ms, reg[d].Upstreams)[id].Weight]]

\* Add of a registration on the plain mapping
SeqAdd(r, service) ==
    LET d == DomainTag(service.Tags).value
        w == WeightTag(service.Tags).value
    IN  IF ~DomainTag(service.Tags).has THEN r
        ELSE IF d \in DOMAIN r
        THEN IF service.ID \in DOMAIN r[d] THEN r
             ELSE [r EXCEPT ![d] = [id \in DOMAIN r[d] \cup {service.ID} |->
                                      IF id = service.ID THEN w ELSE r[d][id]]]
        ELSE [e \in DOMAIN r \cup {d} |->
                IF e = d THEN [id \in {service.ID} |-> w] ELSE r[e]]

\* Del of a registration on the plain mapping
SeqDel(r, service) ==
    LET d == DomainTag(service.Tags).value
    IN  IF ~DomainTag(service.Tags).has \/ d \notin DOMAIN r THEN r
        ELSE IF service.ID \notin DOMAIN r[d] THEN r
        ELSE IF DOMAIN r[d] = {service.ID}
        THEN [e \in DOMAIN r \ {d} |-> r[e]]
        ELSE [r EXCEPT ![d] = [id \in DOMAIN r[d] \ {service.ID} |-> r[d][id]]]

\* ------------------------------------------------------------------------
\* Controller: the registry (controller.go)
\* ------------------------------------------------------------------------
\* sync.Map Store and Delete
Store(reg, domain, h) ==
    [d \in DOMAIN reg \cup {domain} |-> IF d = domain THEN h ELSE reg[d]]
\* a Delete that leaves the key
DeleteNone(reg, domain) == reg

Delete(reg, domain) == [d \in DOMAIN reg \ {domain} |-> reg[d]]

\* a Get that answers with some stored balancer, whatever the domain
ControllerGetAny(domain) ==
    IF registry # << >>
    THEN [balancer |-> registry[CHOOSE d \in DOMAIN registry : TRUE], has |-> TRUE]
    ELSE [balancer |-> NilHandler, has |-> FALSE]

\* a Get that makes a new balancer for a domain without an entry
ControllerGetOrNew(domain) ==
    IF domain \in DOMAIN registry
    THEN [balancer |-> registry[domain], has |-> registry[domain].kind # "nil"]
    ELSE [balancer |-> NewBalancer(<< >>), has |-> TRUE]

\* Controller.Get: sync.Map Load and the Handler type assertion
ControllerGet(domain) ==
    IF domain \in DOMAIN registry
    THEN [balancer |-> registry[domain], has |-> registry[domain].kind # "nil"]
    ELSE [balancer |-> NilHandler, has |-> FALSE]

\* the variables of the Updater and the directory other than hist
syncState == <<WatchServices, upc, services, si, index, entries, feed, batch, err, ctxDone,
               dirMembers, dirIndex, dirLog>>

\* the upstreams and Total of each stored domain
Contents(reg, ms) ==
    [d \in DOMAIN reg |->
        [Upstreams |-> MapAt(ms, reg[d].Upstreams), Total |-> reg[d].Total]]

\* whether the registry holds the id of the service under the service's domain
Holds(service) ==
    /\ ControllerGet(DomainTag(service.Tags).value).has
    /\ service.ID \in
          DOMAIN MapAt(maps, ControllerGet(DomainTag(service.Tags).value).balancer.Upstreams)

\* What is remembered of the calls of the client tasks, for the properties:
\* when an Add of an absent id takes the mutex, the service and the contents
\* of the registry at that time, which are kept while a Del of the same
\* service follows it (remembered only where hist.track says so).
NoteAdd(t) ==
    hist' = IF t \notin Clients \/ ~hist.track THEN hist
            ELSE IF Holds(arg[t])
            THEN [hist EXCEPT !.added = NoService, !.before = << >>]
            ELSE [hist EXCEPT !.added = arg[t], !.before = Contents(registry, maps)]
NoteDel(t) ==
    hist' = IF t \notin Clients \/ ~hist.track \/ arg[t] = hist.added THEN hist
            ELSE [hist EXCEPT !.added = NoService, !.before = << >>]
NoteReturn(t) ==
    hist' = IF pc[t] = "DelReturn" /\ hist.track
            THEN [hist EXCEPT !.added = NoService, !.before = << >>]
            ELSE hist

\* a Lock that does not wait
MutexFreeAlways(t) == TRUE

\* controller.mu.Lock(): the caller proceeds only when nobody holds the mutex
MutexFree(t) == mu = NoTask

\* a return that leaves the mutex locked
UnlockNever(t) == mu' = mu

\* the deferred controller.mu.Unlock() of Add and Del
Unlock(t) == mu' = NoTask

DomainOf(t) == DomainTag(arg[t].Tags).value

\* an Add that does not look for the domain tag
CallAddAnyTags(t, service) ==
    /\ arg' = [arg EXCEPT ![t] = service]
    /\ pc' = [pc EXCEPT ![t] = "Add"]

\* Entry of Controller.Add: without a domain tag the call returns at once
CallAdd(t, service) ==
    /\ arg' = [arg EXCEPT ![t] = service]
    /\ pc' = [pc EXCEPT ![t] = IF DomainTag(service.Tags).has THEN "Add" ELSE "AddReturn"]

\* Entry of Controller.Del
CallDel(t, service) ==
    /\ arg' = [arg EXCEPT ![t] = service]
    /\ pc' = [pc EXCEPT ![t] = IF DomainTag(service.Tags).has THEN "Del" ELSE "DelReturn"]

\* Controller.Add, first half: take the mutex and load the domain's balancer,
\* or make a new one
AddLock(t) ==
    /\ pc[t] = "Add"
    /\ MutexFree(t)
    /\ mu' = t
    /\ balancer' = [balancer EXCEPT ![t] =
                      IF ControllerGet(DomainOf(t)).has
                      THEN ControllerGet(DomainOf(t)).balancer
                      ELSE NewBalancer(arg[t].Tags)]
    /\ pc' = [pc EXCEPT ![t] = "AddLocked"]
    /\ NoteAdd(t)
    /\ UNCHANGED <<registry, maps, slices, arg, host, upstream, resp, loadMu, seqReg>>
    /\ UNCHANGED syncState
    /\ UNCHANGED tokenVars

\* Controller.Add, second half: store balancer.Add(service) under the domain
\* and release the mutex
AddStore(t) ==
    /\ pc[t] = "AddLocked"
    /\ CanMake
    /\ \E order \in AddOrders(balancer[t], arg[t]) :
         LET res == HandlerAdd(balancer[t], arg[t], order)
         IN  /\ registry' = Store(registry, DomainOf(t), res.handler)
             /\ balancer' = [balancer EXCEPT ![t] = NilHandler]
             /\ maps' = Sweep(res.maps, MapRefs(registry', balancer'))
             /\ slices' = Sweep(res.slices, SliceRefs(registry', balancer'))
    /\ seqReg' = SeqAdd(seqReg, arg[t])
    /\ Unlock(t)
    /\ pc' = [pc EXCEPT ![t] = "AddReturn"]
    /\ UNCHANGED <<arg, host, upstream, resp, loadMu>>
    /\ UNCHANGED syncVars
    /\ UNCHANGED tokenVars

\* Controller.Del, first half: take the mutex and load the domain's balancer;
\* without an entry the call returns and releases the mutex
DelLock(t) ==
    /\ pc[t] = "Del"
    /\ MutexFree(t)
    /\ IF ControllerGet(DomainOf(t)).has
       THEN /\ mu' = t
            /\ balancer' = [balancer EXCEPT ![t] = ControllerGet(DomainOf(t)).balancer]
            /\ pc' = [pc EXCEPT ![t] = "DelLocked"]
            /\ seqReg' = seqReg
       ELSE /\ pc' = [pc EXCEPT ![t] = "DelReturn"]
            /\ seqReg' = SeqDel(seqReg, arg[t])
            /\ UNCHANGED <<mu, balancer>>
    /\ NoteDel(t)
    /\ UNCHANGED <<registry, maps, slices, arg, host, upstream, resp, loadMu>>
    /\ UNCHANGED syncState
    /\ UNCHANGED tokenVars

\* Controller.Del, second half: balancer.Del(service); delete the domain when
\* the result is empty, store the result otherwise; release the mutex
DelStore(t) ==
    /\ pc[t] = "DelLocked"
    /\ CanMake
    /\ \E order \in DelOrders(balancer[t], arg[t]) :
         LET res == HandlerDel(balancer[t], arg[t], order)
         IN  /\ registry' = IF HandlerEmpty(res.handler)
                            THEN Delete(registry, DomainOf(t))
                            ELSE Store(registry, DomainOf(t), res.handler)
             /\ balancer' = [balancer EXCEPT ![t] = NilHandler]
             /\ maps' = Sweep(res.maps, MapRefs(registry', balancer'))
             /\ slices' = Sweep(res.slices, SliceRefs(registry', balancer'))
    /\ seqReg' = SeqDel(seqReg, arg[t])
    /\ Unlock(t)
    /\ pc' = [pc EXCEPT ![t] = "DelReturn"]
    /\ UNCHANGED <<arg, host, upstream, resp, loadMu>>
    /\ UNCHANGED syncVars
    /\ UNCHANGED tokenVars

\* A client task calls Add or Del with some service record
ClientAdd(t, service) ==
    /\ pc[t] = "idle"
    /\ CallAdd(t, service)
    /\ UNCHANGED <<registry, maps, slices, mu, host, balancer, upstream, resp, loadMu, seqReg>>
    /\ UNCHANGED syncVars
    /\ UNCHANGED tokenVars

ClientDel(t, service) ==
    /\ pc[t] = "idle"
    /\ CallDel(t, service)
    /\ UNCHANGED <<registry, maps, slices, mu, host, balancer, upstream, resp, loadMu, seqReg>>
    /\ UNCHANGED syncVars
    /\ UNCHANGED tokenVars

\* the call returns to the client
ClientReturn(t) ==
    /\ pc[t] \in {"AddReturn", "DelReturn"}
    /\ pc' = [pc EXCEPT ![t] = "idle"]
    /\ arg' = [arg EXCEPT ![t] = NoService]
    /\ NoteReturn(t)
    /\ UNCHANGED <<registry, maps, slices, mu, host, balancer, upstream, resp, loadMu, seqReg>>
    /\ UNCHANGED syncState
    /\ UNCHANGED tokenVars

\* ------------------------------------------------------------------------
\* Dispatch
\* ------------------------------------------------------------------------
\* a request that waits for the mutex
DispatchReadyUnlocked(t) == pc[t] = "idle" /\ mu = NoTask

\* A request enters Controller.ServeHTTP without taking the mutex
DispatchReady(t) == pc[t] = "idle"

\* Controller.ServeHTTP: look the Host up; without an entry, and for the
\* empty handler, answer 404; otherwise go on to WeightedRandom.ServeHTTP
ServeHTTP(t, h) ==
    /\ DispatchReady(t)
    /\ host' = [host EXCEPT ![t] = h]
    /\ loadMu' = [loadMu EXCEPT ![t] = mu]
    /\ IF ControllerGet(h).has /\ ControllerGet(h).balancer.kind = "WeightedRandom"
       THEN /\ balancer' = [balancer EXCEPT ![t] = ControllerGet(h).balancer]
            /\ pc' = [pc EXCEPT ![t] = "Next"]
            /\ resp' = resp
       ELSE /\ resp' = [resp EXCEPT ![t] = 404]
            /\ pc' = [pc EXCEPT ![t] = "done"]
            /\ balancer' = balancer
    /\ UNCHANGED <<registry, maps, slices, mu, arg, upstream, seqReg>>
    /\ UNCHANGED syncVars
    /\ UNCHANGED tokenVars

\* WeightedRandom.ServeHTTP and Next on the loaded balancer: val is the value
\* of the 8 random bytes (the read from crypto/rand is taken to succeed). A
\* zero Total (division by zero) and an index outside the table end the
\* request in a panic.
Next(t, val) ==
    /\ pc[t] = "Next"
    /\ LET b     == balancer[t]
           table == SliceAt(slices, b.weighted)
       IN  IF b.Total = 0 \/ (val % b.Total) + 1 > Len(table)
           THEN /\ pc' = [pc EXCEPT ![t] = "panic"]
                /\ UNCHANGED <<upstream, balancer, maps, slices>>
           ELSE /\ upstream' = [upstream EXCEPT ![t] = table[(val % b.Total) + 1].ID]
                /\ pc' = [pc EXCEPT ![t] = "forward"]
                /\ balancer' = [balancer EXCEPT ![t] = NilHandler]
                /\ maps' = Sweep(maps, MapRefs(registry, balancer'))
                /\ slices' = Sweep(slices, SliceRefs(registry, balancer'))
    /\ UNCHANGED <<registry, mu, arg, host, resp, loadMu, seqReg>>
    /\ UNCHANGED syncVars
    /\ UNCHANGED tokenVars

\* WeightedUpstream.ServeHTTP: the round trip to the backend; its status is
\* passed on, a transport failure is answered with 500
Forward(t, ok) ==
    /\ pc[t] = "forward"
    /\ resp' = [resp EXCEPT ![t] = IF ok THEN 200 ELSE 500]
    /\ pc' = [pc EXCEPT ![t] = "done"]
    /\ UNCHANGED <<registry, maps, slices, mu, arg, host, balancer, upstream, loadMu, seqReg>>
    /\ UNCHANGED syncVars
    /\ UNCHANGED tokenVars

\* the request is over
Finish(t) ==
    /\ pc[t] = "done"
    /\ pc' = [pc EXCEPT ![t] = "idle"]
    /\ host' = [host EXCEPT ![t] = ""]
    /\ upstream' = [upstream EXCEPT ![t] = ""]
    /\ resp' = [resp EXCEPT ![t] = 0]
    /\ loadMu' = [loadMu EXCEPT ![t] = NoTask]
    /\ UNCHANGED <<registry, maps, slices, mu, arg, balancer, seqReg>>
    /\ UNCHANGED syncVars
    /\ UNCHANGED tokenVars

\* ------------------------------------------------------------------------
\* The service directory (the Nomad API the Updater calls)
\* ------------------------------------------------------------------------
\* Largest modify index the directory reaches.
MaxIndex == 3
\* Largest number of log entries one received batch covers.
MaxBatch == 2

\* The instances that register with and deregister from the directory
DirInstances ==
    { Service("s1", "web", TagsA1), Service("s2", "api", TagsA2) }

\* The configured watch sets
WatchConfigs == { <<"web", "api">>, <<"*">> }

Range(f) == {f[i] : i \in DOMAIN f}

\* An event of the feed: its index, its type, the service name it is filed
\* under, and what decoding its payload gives: a service record ("ok"), an
\* error ("error"), or no record ("nil").
Event(i, type, service, decode) ==
    [Index |-> i, Type |-> type, ServiceName |-> service.ServiceName,
     service |-> service, decode |-> decode]

\* The events that are no usable registration or deregistration: one whose
\* payload does not decode, one without a record, one of another type
NoiseEvents(i) ==
    { Event(i, "ServiceRegistration", Service("s1", "web", TagsA1), "error"),
      Event(i, "ServiceDeregistration", Service("s1", "web", TagsA1), "nil"),
      Event(i, "ServiceOther", Service("s1", "web", TagsA1), "ok") }

\* the Updater has not ended
Running == upc \notin {"stopped", "failed", "panic"}

\* the directory commits a change: the index grows by one and the event is
\* appended to the log (changes after the Updater has ended are left out)
Commit(members, ev) ==
    /\ dirIndex < MaxIndex
    /\ Running
    /\ dirMembers' = members
    /\ dirIndex' = dirIndex + 1
    /\ dirLog' = Append(dirLog, ev)
    /\ UNCHANGED <<WatchServices, upc, services, si, index, entries, feed, batch, err,
                   ctxDone, hist>>
    /\ UNCHANGED regVars
    /\ UNCHANGED tokenVars

DirRegister(inst) ==
    /\ inst \notin dirMembers
    /\ Commit(dirMembers \cup {inst}, Event(dirIndex + 1, "ServiceRegistration", inst, "ok"))

DirDeregister(inst) ==
    /\ inst \in dirMembers
    /\ Commit(dirMembers \ {inst}, Event(dirIndex + 1, "ServiceDeregistration", inst, "ok"))

DirNoise(ev) == Commit(dirMembers, ev)

\* Services().List: one stub for the namespace with the names of the
\* services that have instances; no stub when there is no service
ServiceNames == {inst.ServiceName : inst \in dirMembers}
ListResult(order) == IF ServiceNames = {} THEN << >> ELSE <<[Services |-> order]>>

\* Services().Get: the instances registered under a name
MembersOf(name) == {inst \in dirMembers : inst.ServiceName = name}

\* Stream: the first position of the log with an index of fromIndex or more
FirstPos(fromIndex) ==
    Min({p \in 1 .. Len(dirLog) : dirLog[p].Index >= fromIndex} \cup {Len(dirLog) + 1})

\* whether the feed opened for topics carries the event
Matches(topics, ev) == "*" \in Range(topics) \/ ev.ServiceName \in Range(topics)

RECURSIVE Filter(_, _)
Filter(evs, topics) ==
    IF evs = << >> THEN << >>
    ELSE IF Matches(topics, Head(evs)) THEN <<Head(evs)>> \o Filter(Tail(evs), topics)
    ELSE Filter(Tail(evs), topics)

ClosedFeed == [open |-> FALSE, from |-> 0, next |-> 1, topics |-> << >>]

\* the transport of the feed fails: the events channel is closed
FeedBreak ==
    /\ feed.open
    /\ feed' = [feed EXCEPT !.open = FALSE]
    /\ UNCHANGED <<WatchServices, upc, services, si, index, entries, batch, err, ctxDone,
                   dirMembers, dirIndex, dirLog, hist>>
    /\ UNCHANGED regVars
    /\ UNCHANGED tokenVars

\* the context is cancelled; Stream closes the events channel
Cancel ==
    /\ ~ctxDone
    /\ Running
    /\ ctxDone' = TRUE
    /\ feed' = [feed EXCEPT !.open = FALSE]
    /\ hist' = [hist EXCEPT !.cancelAt = upc]
    /\ UNCHANGED <<WatchServices, upc, services, si, index, entries, batch, err,
                   dirMembers, dirIndex, dirLog>>
    /\ UNCHANGED regVars
    /\ UNCHANGED tokenVars

\* ------------------------------------------------------------------------
\* Controller.Updater (controller.go)
\* ------------------------------------------------------------------------
\* the next step is taken without waiting for the call to return
ReturnedOrNot == TRUE

\* the Updater's last call of Add or Del has returned
Returned == pc[UpdaterTask] \in {"idle", "AddReturn", "DelReturn"}

NoCall ==
    /\ pc' = [pc EXCEPT ![UpdaterTask] = "idle"]
    /\ arg' = [arg EXCEPT ![UpdaterTask] = NoService]

\* services[:0] followed by appends: the first cap(WatchServices) names are
\* written into the array WatchServices still refers to (its capacity is
\* its length)
AppendInto(watch, names) ==
    [i \in 1 .. Len(watch) |-> IF i <= Len(names) THEN names[i] ELSE watch[i]]

\* a failed directory call that is logged and left to the next round
ReturnErrorRetry(call) ==
    /\ upc' = upc
    /\ err' = err
    /\ hist' = [hist EXCEPT !.fault = call]

\* `return err` after the directory call named call has failed
ReturnError(call) ==
    /\ upc' = "failed"
    /\ err' = "error"
    /\ hist' = [hist EXCEPT !.fault = call]

\* Resolve the watch set: with "*" configured, list all services once
UpdaterStart(ok, order) ==
    /\ upc = "start"
    /\ IF "*" \in Range(WatchServices)
       THEN IF ~ok
            THEN /\ ReturnError("List")
                 /\ UNCHANGED <<WatchServices, services>>
            ELSE IF ListResult(order) = << >>
            THEN \* list[0] of an empty list: index out of range
                 /\ upc' = "panic"
                 /\ UNCHANGED <<WatchServices, services, err, hist>>
            ELSE /\ services' = ListResult(order)[1].Services
                 /\ WatchServices' = AppendInto(WatchServices, services')
                 /\ upc' = "list"
                 /\ UNCHANGED <<err, hist>>
       ELSE /\ services' = WatchServices
            /\ upc' = IF Len(WatchServices) = 0 THEN "select" ELSE "list"
            /\ UNCHANGED <<WatchServices, err, hist>>
    /\ UNCHANGED <<si, index, entries, feed, batch, ctxDone, dirMembers, dirIndex, dirLog>>
    /\ UNCHANGED regVars
    /\ UNCHANGED tokenVars

\* the index after a listing that reported LastIndex
NextIndex(idx, LastIndex) == IF LastIndex > idx THEN LastIndex + 1 ELSE idx

\* List the members of services[si] and take the listing's index
UpdaterList(ok) ==
    /\ upc = "list"
    /\ Returned
    /\ IF ~ok
       THEN /\ ReturnError("Get")
            /\ UNCHANGED <<index, entries>>
       ELSE /\ \E order \in Orders(MembersOf(services[si])) : entries' = order
            /\ index' = NextIndex(index, dirIndex)
            /\ hist' = [hist EXCEPT !.observed = @ \cup {dirIndex}]
            /\ upc' = "entries"
            /\ err' = err
    /\ UNCHANGED <<WatchServices, services, si, feed, batch, ctxDone, dirMembers, dirIndex,
                   dirLog>>
    /\ UNCHANGED regVars
    /\ UNCHANGED tokenVars

\* Add the next entry of the listing; after the last one go on to the next
\* service, and after the last service to the streaming loop
UpdaterEntry ==
    /\ upc = "entries"
    /\ Returned
    /\ IF entries # << >>
       THEN /\ CallAdd(UpdaterTask, Head(entries))
            /\ entries' = Tail(entries)
            /\ UNCHANGED <<upc, si, hist>>
       ELSE /\ NoCall
            /\ si' = si + 1
            /\ upc' = IF si + 1 > Len(services) THEN "select" ELSE "list"
            /\ hist' = IF si + 1 > Len(services)
                       THEN [hist EXCEPT !.initResume = index, !.initDone = TRUE]
                       ELSE hist
            /\ UNCHANGED entries
    /\ UNCHANGED <<WatchServices, services, index, feed, batch, err, ctxDone, dirMembers,
                   dirIndex, dirLog>>
    /\ UNCHANGED <<registry, maps, slices, mu, host, balancer, upstream, resp, loadMu, seqReg>>
    /\ UNCHANGED tokenVars

\* Top of the streaming loop: stop when the context is cancelled
UpdaterSelect ==
    /\ upc = "select"
    /\ IF ctxDone
       THEN /\ upc' = "stopped"
            /\ err' = "nil"
       ELSE /\ upc' = "stream"
            /\ err' = err
    /\ UNCHANGED <<WatchServices, services, si, index, entries, feed, batch, ctxDone,
                   dirMembers, dirIndex, dirLog, hist>>
    /\ UNCHANGED regVars
    /\ UNCHANGED tokenVars

\* a Stream call from the start of the feed, as the earlier Run made it
StreamFromZero == 0

\* the index a Stream call is made with
StreamFrom == index

\* EventStream().Stream for WatchServices from index; a failure, and a
\* context cancelled already, make the Updater return the error
UpdaterStream(ok) ==
    /\ upc = "stream"
    /\ IF ~ok \/ ctxDone
       THEN /\ ReturnError(IF ok THEN "canceled" ELSE "Stream")
            /\ UNCHANGED feed
       ELSE /\ feed' = [open |-> TRUE, from |-> StreamFrom, next |-> FirstPos(StreamFrom),
                        topics |-> WatchServices]
            /\ hist' = [hist EXCEPT !.streams = IF @ < 2 THEN @ + 1 ELSE @]
            /\ upc' = "recv"
            /\ err' = err
    /\ UNCHANGED <<WatchServices, services, si, index, entries, batch, ctxDone, dirMembers,
                   dirIndex, dirLog>>
    /\ UNCHANGED regVars
    /\ UNCHANGED tokenVars

\* Receive from the events channel: the next log entries the feed carries,
\* or the end of the channel
UpdaterRecv(k) ==
    /\ upc = "recv"
    /\ IF ~feed.open
       THEN /\ upc' = "select"
            /\ UNCHANGED <<feed, batch>>
       ELSE /\ feed.next + k - 1 <= Len(dirLog)
            /\ batch' = Filter(SubSeq(dirLog, feed.next, feed.next + k - 1), feed.topics)
            /\ feed' = [feed EXCEPT !.next = @ + k]
            /\ upc' = "events"
    /\ UNCHANGED <<WatchServices, services, si, index, entries, err, ctxDone, dirMembers,
                   dirIndex, dirLog, hist>>
    /\ UNCHANGED regVars
    /\ UNCHANGED tokenVars

\* the call made by the type of the event alone, whatever decoding it gave
EventCallByType(ev) ==
    IF ev.Type = "ServiceRegistration" THEN CallAdd(UpdaterTask, ev.service)
    ELSE IF ev.Type = "ServiceDeregistration" THEN CallDel(UpdaterTask, ev.service)
    ELSE NoCall

\* ev.Service() and the switch on ev.Type: an event that does not decode and
\* one without a record are passed over, a registration is added, a
\* deregistration deleted, any other type passed over
EventCall(ev) ==
    IF ev.decode # "ok" THEN NoCall
    ELSE IF ev.Type = "ServiceRegistration" THEN CallAdd(UpdaterTask, ev.service)
    ELSE IF ev.Type = "ServiceDeregistration" THEN CallDel(UpdaterTask, ev.service)
    ELSE NoCall

\* Handle the next event of the batch: take its index, decode it, and call
\* Add or Del by its type
UpdaterEvent ==
    /\ upc = "events"
    /\ Returned
    /\ IF batch = << >>
       THEN /\ NoCall
            /\ upc' = "recv"
            /\ UNCHANGED <<index, batch, hist>>
       ELSE LET ev == Head(batch)
            IN  /\ index' = ev.Index
                /\ batch' = Tail(batch)
                /\ hist' = [hist EXCEPT !.received = @ \cup {ev.Index},
                                        !.lastEvent = ev.Index,
                                        !.redelivery = ev.Index \in hist.received,
                                        !.skipped = ev.decode # "ok" \/ ev.Type \notin
                                          {"ServiceRegistration", "ServiceDeregistration"}]
                /\ upc' = upc
                /\ EventCall(ev)
    /\ UNCHANGED <<WatchServices, services, si, entries, feed, err, ctxDone, dirMembers,
                   dirIndex, dirLog>>
    /\ UNCHANGED <<registry, maps, slices, mu, host, balancer, upstream, resp, loadMu, seqReg>>
    /\ UNCHANGED tokenVars

\* ------------------------------------------------------------------------
\* The registry with client tasks and requests
\* ------------------------------------------------------------------------
\* ------------------------------------------------------------------------
\* The credential: LoadToken and TokenReloader (controller.go)
\* ------------------------------------------------------------------------
File(readable, text) == [readable |-> readable, text |-> text]

\* The files at TokenPath: tokens with and without white space around them,
\* and a file that cannot be read
TokenFiles ==
    { File(TRUE, <<"a">>), File(TRUE, <<"a", "\n">>), File(TRUE, <<" ", "b", "\n">>),
      File(TRUE, <<"b">>), File(TRUE, <<"c", " ">>), File(FALSE, << >>) }

WhiteSpace == {" ", "\n"}

\* strings.TrimSpace: the text without the white space at its ends
RECURSIVE TrimSpace(_)
TrimSpace(text) ==
    IF text = << >> THEN text
    ELSE IF Head(text) \in WhiteSpace THEN TrimSpace(Tail(text))
    ELSE IF text[Len(text)] \in WhiteSpace THEN TrimSpace(SubSeq(text, 1, Len(text) - 1))
    ELSE text

\* the bare `return` of TokenReloader: the named result err as it stands
ReturnedErr(e) == e

\* the token file is written, replaced or made unreadable
FileChange(file) ==
    /\ tpc = "wait"
    /\ tokenFile # file
    /\ tokenFile' = file
    /\ UNCHANGED <<secretID, tpc, terr, reload>>
    /\ UNCHANGED <<regVars, syncVars>>

\* a reload signal arrives: signal.Notify sends without blocking into the
\* channel of capacity one
Signal ==
    /\ tpc = "wait"
    /\ reload' = TRUE
    /\ UNCHANGED <<secretID, tokenFile, tpc, terr>>
    /\ UNCHANGED <<regVars, syncVars>>

\* the context of the task group is cancelled
TokenCancel ==
    /\ tpc = "wait"
    /\ ~ctxDone
    /\ ctxDone' = TRUE
    /\ UNCHANGED <<WatchServices, upc, services, si, index, entries, feed, batch, err,
                   dirMembers, dirIndex, dirLog, hist>>
    /\ UNCHANGED regVars
    /\ UNCHANGED tokenVars

\* TokenReloader, case sig := <-reload: err = LoadToken(); a file that
\* cannot be read leaves the credential, the error is logged and the loop
\* goes on
TokenReload ==
    /\ tpc = "wait"
    /\ reload
    /\ reload' = FALSE
    /\ IF tokenFile.readable
       THEN /\ secretID' = TrimSpace(tokenFile.text)
            /\ terr' = "nil"
       ELSE /\ secretID' = secretID
            /\ terr' = "error"
    /\ UNCHANGED <<tokenFile, tpc>>
    /\ UNCHANGED <<regVars, syncVars>>

\* TokenReloader, case <-ctx.Done(): return
TokenStop ==
    /\ tpc = "wait"
    /\ ctxDone
    /\ tpc' = "stopped"
    /\ terr' = ReturnedErr(terr)
    /\ UNCHANGED <<secretID, tokenFile, reload>>
    /\ UNCHANGED <<regVars, syncVars>>

\* New: LoadToken has read the file and set the credential; the reloader
\* waits in its select
InitToken(file) ==
    /\ tokenFile = file
    /\ secretID = TrimSpace(file.text)
    /\ tpc = "wait"
    /\ terr = "nil"
    /\ reload = FALSE

vars == <<regVars, syncVars, tokenVars>>

InitRegistry ==
    /\ registry = << >>
    /\ maps = [a \in Addr |-> << >>]
    /\ slices = [a \in Addr |-> << >>]
    /\ mu = NoTask
    /\ pc = [t \in Tasks |-> "idle"]
    /\ arg = [t \in Tasks |-> NoService]
    /\ host = [t \in Tasks |-> ""]
    /\ balancer = [t \in Tasks |-> NilHandler]
    /\ upstream = [t \in Tasks |-> ""]
    /\ resp = [t \in Tasks |-> 0]
    /\ loadMu = [t \in Tasks |-> NoTask]
    /\ seqReg = << >>

NoHist ==
    [observed |-> {}, initResume |-> 0, received |-> {}, lastEvent |-> 0,
     redelivery |-> FALSE, streams |-> 0, config |-> << >>, initDone |-> FALSE,
     skipped |-> FALSE, fault |-> "", cancelAt |-> "",
     added |-> NoService, before |-> << >>, track |-> FALSE]

\* the Updater before it runs, for a configured watch set and the instances
\* the directory holds at that time
InitSyncState(config, members) ==
    /\ WatchServices = config
    /\ upc = "start"
    /\ services = << >>
    /\ si = 1
    /\ index = 0
    /\ entries = << >>
    /\ feed = ClosedFeed
    /\ batch = << >>
    /\ err = ""
    /\ ctxDone = FALSE
    /\ dirMembers = members
    /\ dirIndex = 1
    /\ dirLog = << >>

InitSync(config, members) ==
    /\ InitSyncState(config, members)
    /\ hist = [NoHist EXCEPT !.config = config]

Init == InitRegistry /\ InitSync(<<"*">>, {}) /\ InitToken(File(TRUE, <<"a">>))

\* Add, Del and the steps inside them, for the tasks in T
ClientStep(T) ==
    \/ \E t \in T, service \in ClientServices : ClientAdd(t, service)
    \/ \E t \in T, service \in ClientServices : ClientDel(t, service)
    \/ \E t \in T : AddLock(t)
    \/ \E t \in T : AddStore(t)
    \/ \E t \in T : DelLock(t)
    \/ \E t \in T : DelStore(t)
    \/ \E t \in T : ClientReturn(t)

\* the steps of a request
DispatchStep ==
    \/ \E t \in Dispatchers, h \in Hosts : ServeHTTP(t, h)
    \/ \E t \in Dispatchers, val \in 0 .. RandBound - 1 : Next(t, val)
    \/ \E t \in Dispatchers, ok \in BOOLEAN : Forward(t, ok)
    \/ \E t \in Dispatchers : Finish(t)

\* One task that calls Add and Del, and requests served beside it
NextRegistry ==
    \/ ClientStep({"m1"})
    \/ DispatchStep

Spec == Init /\ [][NextRegistry]_vars

\* One task that calls Add and Del, with the state before its Adds remembered
InitRoundTrip ==
    /\ InitRegistry
    /\ InitSyncState(<<"*">>, {})
    /\ hist = [NoHist EXCEPT !.config = <<"*">>, !.track = TRUE]
    /\ InitToken(File(TRUE, <<"a">>))

NextRoundTrip == ClientStep({"m1"})

SpecRoundTrip == InitRoundTrip /\ [][NextRoundTrip]_vars

\* Largest number of tags of a registration in TagServices.
MaxTags == 2

\* The tags registrations are drawn from: domain, protocol and path tags, a
\* tag of no kind, and weight tags with a number in range, zero, no number,
\* a negative number, the largest weight, numbers above it and no text
TagPool ==
    { Tag(DomainTagPrefix, "a"), Tag(DomainTagPrefix, "b"),
      Tag(ProtoTagPrefix, "https"), Tag(ProtoTagPrefix, "h2c"),
      Tag(PathTagPrefix, "/x"), Tag(PathTagPrefix, "/y"),
      Tag("other:", "z"),
      Tag(WeightTagPrefix, <<"2">>), Tag(WeightTagPrefix, <<"0">>),
      Tag(WeightTagPrefix, <<"x">>), Tag(WeightTagPrefix, <<"-", "1">>),
      Tag(WeightTagPrefix, <<"2", "5", "5">>), Tag(WeightTagPrefix, <<"2", "5", "6">>),
      Tag(WeightTagPrefix, <<"3", "0", "0">>), Tag(WeightTagPrefix, << >>) }

TagLists == UNION { [1 .. n -> TagPool] : n \in 0 .. MaxTags }

TagServices == { Service("s1", "web", tags) : tags \in TagLists }

\* A registration with any of these tag lists is added to the empty registry
TagsAdd(service) ==
    /\ registry = << >>
    /\ ClientAdd("m1", service)

NextTags ==
    \/ \E service \in TagServices : TagsAdd(service)
    \/ AddLock("m1")
    \/ AddStore("m1")
    \/ ClientReturn("m1")

SpecTags == Init /\ [][NextTags]_vars

\* The Updater with explicit names beside a directory that changes, a feed
\* that breaks, a context that is cancelled and requests that are served
InitServing ==
    /\ InitRegistry
    /\ \E members \in SUBSET DirInstances : InitSync(<<"web", "api">>, members)
    /\ InitToken(File(TRUE, <<"a">>))

NextServing ==
    \/ \E ok \in BOOLEAN, order \in Orders(ServiceNames) : UpdaterStart(ok, order)
    \/ \E ok \in BOOLEAN : UpdaterList(ok)
    \/ UpdaterEntry
    \/ UpdaterSelect
    \/ \E ok \in BOOLEAN : UpdaterStream(ok)
    \/ \E k \in 1 .. MaxBatch : UpdaterRecv(k)
    \/ UpdaterEvent
    \/ AddLock(UpdaterTask)
    \/ AddStore(UpdaterTask)
    \/ DelLock(UpdaterTask)
    \/ DelStore(UpdaterTask)
    \/ \E inst \in DirInstances : DirRegister(inst)
    \/ \E inst \in DirInstances : DirDeregister(inst)
    \/ FeedBreak
    \/ Cancel
    \/ DispatchStep

SpecServing == InitServing /\ [][NextServing]_vars

\* The TokenReloader beside a token file that changes, reload signals and a
\* context that is cancelled
InitReloader ==
    /\ InitRegistry
    /\ InitSync(<<"*">>, {})
    /\ \E file \in {f \in TokenFiles : f.readable} : InitToken(file)

NextReloader ==
    \/ \E file \in TokenFiles : FileChange(file)
    \/ Signal
    \/ TokenCancel
    \/ TokenReload
    \/ TokenStop

SpecReloader == InitReloader /\ [][NextReloader]_vars

\* Several tasks that call Add and Del at the same time
NextClients == ClientStep(Clients)

SpecClients == Init /\ [][NextClients]_vars

\* The Updater beside a directory that changes, a feed that breaks and a
\* context that is cancelled
InitUpdater ==
    /\ InitRegistry
    /\ \E config \in WatchConfigs, members \in SUBSET DirInstances : InitSync(config, members)
    /\ InitToken(File(TRUE, <<"a">>))

NextUpdater ==
    \/ \E ok \in BOOLEAN, order \in Orders(ServiceNames) : UpdaterStart(ok, order)
    \/ \E ok \in BOOLEAN : UpdaterList(ok)
    \/ UpdaterEntry
    \/ UpdaterSelect
    \/ \E ok \in BOOLEAN : UpdaterStream(ok)
    \/ \E k \in 1 .. MaxBatch : UpdaterRecv(k)
    \/ UpdaterEvent
    \/ AddLock(UpdaterTask)
    \/ AddStore(UpdaterTask)
    \/ DelLock(UpdaterTask)
    \/ DelStore(UpdaterTask)
    \/ \E inst \in DirInstances : DirRegister(inst)
    \/ \E inst \in DirInstances : DirDeregister(inst)
    \/ \E ev \in NoiseEvents(dirIndex + 1) : DirNoise(ev)
    \/ FeedBreak
    \/ Cancel

SpecUpdater == InitUpdater /\ [][NextUpdater]_vars

\* ------------------------------------------------------------------------
\* Properties
\* ------------------------------------------------------------------------
Max(S) == CHOOSE a \in S : \A b \in S : a >= b

RECURSIVE Count(_, _)
Count(table, u) ==
    IF table = << >> THEN 0
    ELSE (IF Head(table) = u THEN 1 ELSE 0) + Count(Tail(table), u)

\* a balancer whose Total, map and table agree
WellFormed(h) ==
    LET ups   == MapAt(maps, h.Upstreams)
        table == SliceAt(slices, h.weighted)
    IN  /\ h.Total = SumWeights(ups)
        /\ Len(table) = h.Total
        /\ \A id \in DOMAIN ups : Count(table, ups[id]) = ups[id].Weight

\* C1: a domain key is stored exactly when its balancer holds at least one
\* upstream: every stored value is a WeightedRandom with a non-empty map
\* (never the empty handler, never a balancer without upstreams), and every
\* domain that has an upstream after the calls made so far has a key.
C1_KeyIffNonEmpty ==
    /\ \A d \in DOMAIN registry :
          /\ registry[d].kind = "WeightedRandom"
          /\ DOMAIN MapAt(maps, registry[d].Upstreams) # {}
    /\ \A d \in DOMAIN seqReg : d \in DOMAIN registry

\* A Del has removed the only upstream that a request still holds in the
\* snapshot it loaded, the key of its domain is gone and another domain stays.
C1_Witness ==
    /\ pc["m1"] = "DelReturn"
    /\ pc["d1"] = "Next"
    /\ host["d1"] = DomainOf("m1")
    /\ DOMAIN MapAt(maps, balancer["d1"].Upstreams) = {arg["m1"].ID}
    /\ DomainOf("m1") \notin DOMAIN registry
    /\ registry # << >>

\* C2: in every balancer stored in the registry or held by a task, Total is
\* the sum of the stored weights, the table has Total entries and holds each
\* upstream as often as its stored weight.
C2_TableMatchesWeights ==
    /\ \A d \in DOMAIN registry : WellFormed(registry[d])
    /\ \A t \in Tasks : balancer[t].kind = "WeightedRandom" => WellFormed(balancer[t])

\* A Del was passed a record with weight tag 1 for an upstream stored with
\* weight 2 (a request still holds the snapshot with it), and another
\* upstream remains.
C2_Witness ==
    /\ pc["m1"] = "DelReturn"
    /\ WeightTag(arg["m1"].Tags).value = 1
    /\ pc["d1"] = "Next"
    /\ host["d1"] = DomainOf("m1")
    /\ arg["m1"].ID \in DOMAIN MapAt(maps, balancer["d1"].Upstreams)
    /\ MapAt(maps, balancer["d1"].Upstreams)[arg["m1"].ID].Weight = 2
    /\ DomainOf("m1") \in DOMAIN registry
    /\ arg["m1"].ID \notin DOMAIN MapAt(maps, registry[DomainOf("m1")].Upstreams)

\* C3: every stored balancer has a Total above zero, a request that is about
\* to run Next holds a balancer with a Total above zero and a table of that
\* length, and no task has panicked.
C3_NextNeverOnZero ==
    /\ \A d \in DOMAIN registry : registry[d].Total > 0
    /\ \A t \in Dispatchers :
          pc[t] = "Next" =>
            /\ balancer[t].Total > 0
            /\ Len(SliceAt(slices, balancer[t].weighted)) = balancer[t].Total
    /\ \A t \in Tasks : pc[t] # "panic"

\* A request is about to run Next for a host whose key a Del has removed
\* since the request loaded its balancer.
C3_Witness ==
    /\ pc["d1"] = "Next"
    /\ host["d1"] \notin DOMAIN registry
    /\ pc["m1"] = "DelReturn"

\* C4: no step changes a map or a slice that is referred to before and after
\* the step, a request between its load and its selection keeps the balancer
\* it loaded, and that balancer's Total, map and table agree.
C4_SnapshotsImmutable ==
    [][ /\ \A a \in MapRefs(registry, balancer) \cap MapRefs(registry', balancer') :
              maps'[a] = maps[a]
        /\ \A a \in SliceRefs(registry, balancer) \cap SliceRefs(registry', balancer') :
              slices'[a] = slices[a]
        /\ \A t \in Dispatchers :
              /\ (pc[t] = "Next" /\ pc'[t] = "Next") => balancer'[t] = balancer[t]
              /\ pc'[t] = "Next" => WellFormed(balancer[t])' ]_vars

\* A request holds the snapshot it loaded for a domain while an Add for that
\* domain has since installed another one.
C4_Witness ==
    /\ pc["d1"] = "Next"
    /\ pc["m1"] = "AddReturn"
    /\ DomainTag(arg["m1"].Tags).has
    /\ host["d1"] = DomainOf("m1")
    /\ host["d1"] \in DOMAIN registry
    /\ registry[host["d1"]] # balancer["d1"]
    /\ arg["m1"].ID \notin DOMAIN MapAt(maps, balancer["d1"].Upstreams)

\* C5: whenever an Add or Del holds the mutex, every step of a request is
\* enabled: the lookup for any host, the selection and the forwarding.
C5_DispatchNeverBlocks ==
    mu # NoTask =>
        \A t \in Dispatchers :
            /\ pc[t] = "idle" => \A h \in Hosts : ENABLED ServeHTTP(t, h)
            /\ pc[t] = "Next" => ENABLED (\E val \in 0 .. RandBound - 1 : Next(t, val))
            /\ pc[t] = "forward" => ENABLED (\E ok \in BOOLEAN : Forward(t, ok))

\* A request has loaded the installed snapshot while an Add held the mutex,
\* and the Add still holds it.
C5_Witness ==
    /\ mu = "m1"
    /\ pc["m1"] = "AddLocked"
    /\ pc["d1"] = "Next"
    /\ loadMu["d1"] = "m1"
    /\ balancer["d1"] = registry[host["d1"]]

\* C6: the registry equals the result of applying the Add and Del calls one
\* after the other, in the order in which they took the mutex.
C6_Serialized == Abs(registry, maps) = seqReg

\* Two Adds of different ids for the same domain, in progress at the same
\* time, have both stored, and both ids are in the domain's balancer.
C6_Witness ==
    /\ pc["m1"] = "AddReturn"
    /\ pc["m2"] = "AddReturn"
    /\ arg["m1"].ID # arg["m2"].ID
    /\ DomainTag(arg["m1"].Tags).has
    /\ DomainTag(arg["m2"].Tags).has
    /\ DomainOf("m1") = DomainOf("m2")
    /\ DomainOf("m1") \in DOMAIN seqReg
    /\ DOMAIN seqReg[DomainOf("m1")] = {arg["m1"].ID, arg["m2"].ID}

\* the (domain, id) pairs of the registry, and those of the instances of the
\* watched services in the directory that carry a domain tag
RegistryPairs ==
    UNION { {<<d, id>> : id \in DOMAIN MapAt(maps, registry[d].Upstreams)} :
              d \in DOMAIN registry }
Watched(name) == "*" \in Range(hist.config) \/ name \in Range(hist.config)
DirectoryPairs ==
    { <<DomainTag(inst.Tags).value, inst.ID>> :
        inst \in {i \in dirMembers : DomainTag(i.Tags).has /\ Watched(i.ServiceName)} }

\* the Updater has handled everything the open feed has to deliver
CaughtUp ==
    /\ upc = "recv"
    /\ feed.open
    /\ feed.next > Len(dirLog)
    /\ ~ctxDone

\* C7: once the Updater has handled every event the directory has committed
\* and waits on the open feed, the registry holds exactly the domain-tagged
\* instances of the watched services that the directory holds.
C7_NoChangeLost == CaughtUp => RegistryPairs = DirectoryPairs

\* the index a reopened feed is to start from
ExpectedResume == IF hist.lastEvent = 0 THEN hist.initResume ELSE hist.lastEvent

\* C8: a Stream call after the first one is made with the index of the last
\* event received, or the index INIT ended with when none was received; and
\* while an event is handled that was received before, no step changes the
\* upstream sets and weights of the registry.
C8_ResumeFromLastIndex ==
    [][ /\ (upc = "stream" /\ upc' = "recv" /\ hist.streams >= 1) =>
              feed'.from = ExpectedResume
        /\ hist.redelivery => Abs(registry', maps') = Abs(registry, maps) ]_vars

\* After a reopen from an index above zero, a registration or deregistration
\* received before has been delivered again and its Add or Del has returned.
C8_Witness ==
    /\ hist.streams = 2
    /\ feed.from > 0
    /\ feed.from = hist.lastEvent
    /\ hist.redelivery
    /\ upc = "events"
    /\ pc[UpdaterTask] \in {"AddReturn", "DelReturn"}
    /\ DomainTag(arg[UpdaterTask].Tags).has

\* C9: when INIT has ended after at least one listing, the index is the
\* largest modify index a listing reported, plus one.
C9_ResumeIsMaxPlusOne ==
    (hist.initDone /\ hist.observed # {}) => hist.initResume = Max(hist.observed) + 1

\* C10: no step lowers the Updater's index.
C10_IndexMonotone == [][index' >= index]_vars

\* After a reopen, an event that is skipped has raised the index above the
\* index INIT ended with.
C10_Witness ==
    /\ hist.streams = 2
    /\ hist.skipped
    /\ hist.lastEvent = index
    /\ index > hist.initResume
    /\ hist.initResume > 0

\* C11: when the context was cancelled while the Updater was in the streaming
\* loop, about to open the feed or reading from it, and no directory call
\* failed by itself, then the Updater, once it has ended, has ended stopped
\* with a nil error and with no call of Add or Del in progress.
C11_CancelStopsCleanly ==
    ( /\ hist.cancelAt \in {"stream", "recv"}
      /\ hist.fault \notin {"List", "Get", "Stream"}
      /\ ~Running )
    => (upc = "stopped" /\ err = "nil" /\ pc[UpdaterTask] = "idle")

\* C12: after a directory call (the wildcard listing, a listing of INIT,
\* opening the feed) has failed, the Updater has returned the error; the step
\* that fails changes neither the registry nor the index nor the watch set,
\* and after it no step changes the registry or anything of the Updater, so
\* the call is not made again and the Adds made before stay.
C12_DirectoryFailureIsFatal ==
    /\ [](hist.fault # "" => (upc = "failed" /\ err = "error"))
    /\ [][(upc # "failed" /\ upc' = "failed") =>
            UNCHANGED <<registry, maps, slices, mu, pc, index, WatchServices, feed>>]_vars
    /\ [][upc = "failed" =>
            UNCHANGED <<registry, maps, slices, mu, pc, WatchServices, upc, services, si,
                        index, entries, feed, batch, err>>]_vars

\* The second listing of INIT has failed after the first one's entry was
\* added: the Updater has returned the error and the registry holds the entry.
C12_Witness ==
    /\ upc = "failed"
    /\ err = "error"
    /\ hist.fault = "Get"
    /\ si = 2
    /\ registry # << >>

\* an event that is no usable registration or deregistration
Unusable(ev) ==
    ev.decode # "ok" \/ ev.Type \notin {"ServiceRegistration", "ServiceDeregistration"}

\* C13: when the next event of the batch does not decode, decodes to no
\* record or is of another type, no step changes the registry, ends the
\* Updater or sets its error, and the step that handles the event makes no
\* call of Add or Del and leaves the rest of the batch to be handled next.
C13_UnusableEventSkipped ==
    [][ (upc = "events" /\ Returned /\ batch # << >> /\ Unusable(Head(batch))) =>
          /\ registry' = registry
          /\ maps' = maps
          /\ upc' = "events"
          /\ err' = err
          /\ (batch' # batch => (batch' = Tail(batch) /\ pc'[UpdaterTask] = "idle")) ]_vars

\* The first event of the feed was unusable and was passed over, and the
\* registration that followed it has been added to the registry.
C13_Witness ==
    /\ Len(dirLog) >= 2
    /\ Unusable(dirLog[1])
    /\ ~Unusable(dirLog[2])
    /\ hist.received = {dirLog[1].Index, dirLog[2].Index}
    /\ hist.streams = 1
    /\ upc = "events"
    /\ pc[UpdaterTask] = "AddReturn"
    /\ arg[UpdaterTask] = dirLog[2].service
    /\ <<DomainOf(UpdaterTask), arg[UpdaterTask].ID>> \in RegistryPairs

\* what is installed: for each stored domain its upstreams, Total and table
Installed(reg, ms, ss) ==
    [d \in DOMAIN reg |->
        [Upstreams |-> MapAt(ms, reg[d].Upstreams),
         Total     |-> reg[d].Total,
         weighted  |-> SliceAt(ss, reg[d].weighted)]]

\* the step in which the Add or Del of task t stores its result
Stores(t, from) == pc[t] = from /\ pc'[t] # from

\* C14: the storing step of an Add whose id is in the balancer of its domain
\* leaves every installed upstream, weight, endpoint, Total and table as it
\* was, whatever tags the registration carries; the storing step of an Add
\* whose id is not there installs the upstream with the weight and endpoint
\* of the registration's tags.
C14_AddPresentIsNoop ==
    [][ \A t \in Tasks :
          Stores(t, "AddLocked") =>
            IF arg[t].ID \in DOMAIN MapAt(maps, balancer[t].Upstreams)
            THEN Installed(registry', maps', slices') = Installed(registry, maps, slices)
            ELSE Installed(registry', maps', slices')[DomainOf(t)].Upstreams[arg[t].ID]
                   = WeightedUpstream(arg[t], WeightTag(arg[t].Tags).value) ]_vars

\* An Add with weight tag 2 and a path tag has returned for an id that is
\* installed with weight 1 and the default path.
C14_Witness ==
    /\ pc["m1"] = "AddReturn"
    /\ WeightTag(arg["m1"].Tags).value = 2
    /\ PathTag(arg["m1"].Tags).has
    /\ DomainOf("m1") \in DOMAIN registry
    /\ arg["m1"].ID \in DOMAIN MapAt(maps, registry[DomainOf("m1")].Upstreams)
    /\ MapAt(maps, registry[DomainOf("m1")].Upstreams)[arg["m1"].ID].Weight = 1
    /\ MapAt(maps, registry[DomainOf("m1")].Upstreams)[arg["m1"].ID].Endpoint.Path = "/"

\* C15: a Del whose domain has no entry returns without storing, and the
\* storing step of a Del whose id is not in the balancer of its domain stores
\* what was there: in both steps every domain key and every installed
\* upstream set, Total and table stay as they were, and the call returns.
C15_DelAbsentIsNoop ==
    [][ \A t \in Tasks :
          /\ (pc[t] = "Del" /\ pc'[t] = "DelReturn") =>
                Installed(registry', maps', slices') = Installed(registry, maps, slices)
          /\ (Stores(t, "DelLocked")
                /\ arg[t].ID \notin DOMAIN MapAt(maps, balancer[t].Upstreams)) =>
                /\ Installed(registry', maps', slices') = Installed(registry, maps, slices)
                /\ pc'[t] = "DelReturn" ]_vars

\* A Del has returned for an id that its domain's balancer does not hold,
\* and the balancer a request loaded while the Del held the mutex is still
\* the installed one.
C15_Witness ==
    /\ pc["m1"] = "DelReturn"
    /\ DomainTag(arg["m1"].Tags).has
    /\ pc["d1"] = "Next"
    /\ loadMu["d1"] = "m1"
    /\ host["d1"] = DomainOf("m1")
    /\ host["d1"] \in DOMAIN registry
    /\ registry[host["d1"]] = balancer["d1"]
    /\ arg["m1"].ID \notin DOMAIN MapAt(maps, balancer["d1"].Upstreams)

\* C16: the storing step of a Del that follows the Add of the same
\* registration, whose id was not in its domain when the Add took the mutex,
\* leaves the registry with the domain keys and, for each domain, the
\* upstreams and the Total it had before that Add; the same holds when the
\* Del finds no entry for its domain.
C16_AddThenDelRestores ==
    [][ \A t \in Clients :
          ( /\ hist.added = arg[t]
            /\ arg[t] # NoService
            /\ (Stores(t, "DelLocked") \/ (pc[t] = "Del" /\ pc'[t] = "DelReturn")) )
          => Contents(registry', maps') = hist.before ]_vars

\* An Add has put the first upstream of a domain beside another domain, and
\* the Del of the same registration has stored: the domain has no entry.
C16_Witness ==
    /\ pc["m1"] = "DelReturn"
    /\ hist.added = arg["m1"]
    /\ DomainTag(arg["m1"].Tags).has
    /\ DomainOf("m1") \notin DOMAIN hist.before
    /\ DomainOf("m1") \notin DOMAIN registry
    /\ hist.before # << >>
    /\ Contents(registry, maps) = hist.before

\* C17: the storing step of a Del that removes the only upstream of its
\* domain's balancer leaves no key for the domain; a request that starts for
\* a host without a key is answered 404 at once; and a domain without a key
\* gets one only by the storing step of an Add for that domain.
C17_LastDelRemovesDomain ==
    [][ /\ \A t \in Tasks :
              ( /\ Stores(t, "DelLocked")
                /\ DOMAIN MapAt(maps, balancer[t].Upstreams) = {arg[t].ID} )
              => DomainOf(t) \notin DOMAIN registry'
        /\ \A t \in Dispatchers :
              (pc[t] = "idle" /\ pc'[t] # "idle" /\ host'[t] \notin DOMAIN registry)
              => (resp'[t] = 404 /\ pc'[t] = "done" /\ upstream'[t] = "")
        /\ \A d \in Hosts :
              (d \notin DOMAIN registry /\ d \in DOMAIN registry')
              => \E t \in Tasks : Stores(t, "AddLocked") /\ DomainOf(t) = d ]_vars

\* A Del has returned and its domain has no key while another domain has
\* one, and a request for the Del's domain has been answered 404.
C17_Witness ==
    /\ pc["m1"] = "DelReturn"
    /\ DomainTag(arg["m1"].Tags).has
    /\ DomainOf("m1") \notin DOMAIN registry
    /\ registry # << >>
    /\ pc["d1"] = "done"
    /\ host["d1"] = DomainOf("m1")
    /\ resp["d1"] = 404

TagsOf(tags, prefix) == SelectSeq(tags, LAMBDA tg : tg.prefix = prefix)
FirstOf(tags, prefix) ==
    IF TagsOf(tags, prefix) = << >> THEN << >> ELSE <<TagsOf(tags, prefix)[1]>>

\* a text of decimal digits, and the number it writes
Decimal(text) == Len(text) > 0 /\ \A i \in 1 .. Len(text) : text[i] \in DOMAIN DigitValue
RECURSIVE DecimalValue(_)
DecimalValue(text) ==
    IF text = << >> THEN 0
    ELSE 10 * DecimalValue(SubSeq(text, 1, Len(text) - 1)) + DigitValue[text[Len(text)]]
ValidWeight(text) == Decimal(text) /\ DecimalValue(text) \in 1 .. MaxUint8

\* C19: for the tags of a registration that has been added, WeightTag gives
\* a weight from 1 to 255, and gives 1 when the list has no weight tag and
\* when the text of its one weight tag is no decimal number from 1 to 255.
C19_WeightInRangeElseDefault ==
    pc["m1"] = "AddReturn" =>
        LET tags    == arg["m1"].Tags
            weights == TagsOf(tags, WeightTagPrefix)
        IN  /\ WeightTag(tags).value \in 1 .. MaxUint8
            /\ weights = << >> => WeightTag(tags).value = 1
            /\ (Len(weights) = 1 /\ ~ValidWeight(weights[1].val)) => WeightTag(tags).value = 1

\* C20: for the tags of a registration that has been added, each of
\* DomainTag, WeightTag, ProtoTag and PathTag gives what it gives for the
\* first tag of its kind alone.
C20_FirstTagWins ==
    pc["m1"] = "AddReturn" =>
        LET tags == arg["m1"].Tags
        IN  /\ DomainTag(tags) = DomainTag(FirstOf(tags, DomainTagPrefix))
            /\ WeightTag(tags) = WeightTag(FirstOf(tags, WeightTagPrefix))
            /\ ProtoTag(tags) = ProtoTag(FirstOf(tags, ProtoTagPrefix))
            /\ PathTag(tags) = PathTag(FirstOf(tags, PathTagPrefix))

\* C21: a call of Add or Del with a record without a domain tag returns at
\* once, and neither its entry nor its return changes a domain key or
\* anything installed; and no installed upstream is the one such a record
\* would give.
C21_NoDomainTagNoEffect ==
    /\ [](\A s \in ClientServices : \A d \in DOMAIN registry :
            ~DomainTag(s.Tags).has =>
              \A id \in DOMAIN MapAt(maps, registry[d].Upstreams) :
                MapAt(maps, registry[d].Upstreams)[id]
                  # WeightedUpstream(s, WeightTag(s.Tags).value))
    /\ [][ \A t \in Clients :
            /\ (pc[t] = "idle" /\ pc'[t] # "idle" /\ ~DomainTag(arg'[t].Tags).has) =>
                  /\ pc'[t] \in {"AddReturn", "DelReturn"}
                  /\ Installed(registry', maps', slices') = Installed(registry, maps, slices)
            /\ (pc[t] # "idle" /\ ~DomainTag(arg[t].Tags).has) =>
                  /\ pc'[t] \in {pc[t], "idle"}
                  /\ pc'[t] # pc[t] =>
                        Installed(registry', maps', slices')
                          = Installed(registry, maps, slices) ]_vars

\* An Add of a record without a domain tag has returned while the registry
\* holds a domain.
C21_Witness ==
    /\ pc["m1"] = "AddReturn"
    /\ arg["m1"] # NoService
    /\ ~DomainTag(arg["m1"].Tags).has
    /\ registry # << >>

\* the positions of the log whose events were delivered to the Updater and
\* are a registration or deregistration of id under domain d
DeliveredFor(d, id) ==
    { p \in 1 .. Len(dirLog) :
        /\ dirLog[p].Index \in hist.received
        /\ ~Unusable(dirLog[p])
        /\ dirLog[p].service.ID = id
        /\ DomainTag(dirLog[p].service.Tags).has
        /\ DomainTag(dirLog[p].service.Tags).value = d }

\* C22: whenever no call of the Updater is in progress, an id for which
\* events were delivered is in the balancer of its domain exactly when the
\* last of them was a registration; and the Updater takes an event off the
\* batch only when its last call has returned, and takes the first one.
C22_EventsAppliedInOrder ==
    /\ [](pc[UpdaterTask] \in {"idle", "AddReturn", "DelReturn"} =>
            \A d \in Hosts, inst \in DirInstances :
              DeliveredFor(d, inst.ID) # {} =>
                (<<d, inst.ID>> \in RegistryPairs
                   <=> dirLog[Max(DeliveredFor(d, inst.ID))].Type = "ServiceRegistration"))
    /\ [][(upc = "events" /\ upc' = "events" /\ batch' # batch) =>
            /\ pc[UpdaterTask] \in {"idle", "AddReturn", "DelReturn"}
            /\ batch' = Tail(batch)
            /\ hist'.lastEvent = Head(batch).Index]_vars

\* A deregistration and then a registration of the same instance were
\* delivered and handled, and the instance is in its domain's balancer.
C22_Witness ==
    /\ Len(dirLog) = 2
    /\ dirLog[1].Type = "ServiceDeregistration"
    /\ dirLog[2].Type = "ServiceRegistration"
    /\ ~Unusable(dirLog[1])
    /\ ~Unusable(dirLog[2])
    /\ dirLog[1].service = dirLog[2].service
    /\ hist.received = {dirLog[1].Index, dirLog[2].Index}
    /\ pc[UpdaterTask] = "AddReturn"
    /\ arg[UpdaterTask] = dirLog[2].service
    /\ <<DomainOf(UpdaterTask), arg[UpdaterTask].ID>> \in RegistryPairs

\* C23: the credential is always one that was read from the token file, the
\* reloader that has seen a reload fail still waits or has stopped on
\* cancellation, and when it has stopped it has returned no error.
C23_ReloadFailureNotFatal ==
    /\ secretID \in {TrimSpace(f.text) : f \in {g \in TokenFiles : g.readable}}
    /\ tpc \in {"wait", "stopped"}
    /\ tpc = "stopped" => (ctxDone /\ terr = "nil")

\* C24: only a task inside Add or Del holds the mutex, between the load and
\* the store of that call; the Updater holds it only inside the loops over
\* the listed entries and over the events of a batch, and no step that
\* moves the Updater on (a listing, opening the feed, a read from the feed)
\* is taken while it holds the mutex; a task that serves a request, up to
\* and through the round trip to the backend, never holds it.
C24_LockOnlyAroundInstall ==
    /\ [](/\ mu \in (Tasks \ Dispatchers) \cup {NoTask}
          /\ \A t \in Tasks : mu = t => pc[t] \in {"AddLocked", "DelLocked"}
          /\ mu = UpdaterTask => upc \in {"entries", "events"}
          /\ \A t \in Dispatchers : pc[t] \in {"Next", "forward", "done"} => mu # t)
    /\ [][upc' # upc => (mu # UpdaterTask /\ mu' # UpdaterTask)]_vars

\* The Updater holds the mutex inside the Add for an event while a request
\* is in its round trip to a backend.
C24_Witness ==
    /\ mu = UpdaterTask
    /\ pc[UpdaterTask] = "AddLocked"
    /\ upc = "events"
    /\ pc["d1"] = "forward"

\* C25: the feed that is open was opened for a watch set that covers every
\* service name listed in INIT: the configured names when they are explicit,
\* and with the wildcard configured a set that still matches each name of
\* the expansion.
C25_FeedCoversListedServices ==
    feed.open =>
        /\ "*" \notin Range(hist.config) => feed.topics = hist.config
        /\ \A name \in Range(services) : Matches(feed.topics, Event(0, "", Service("", name, << >>), "ok"))

\* C26: with the wildcard configured the Updater never ends in a panic: from
\* the wildcard listing it goes on to the listings and the streaming loop,
\* or it has returned the error of the listing.
C26_WildcardInitDefined ==
    "*" \in Range(hist.config) =>
        /\ upc # "panic"
        /\ upc = "failed" => err = "error"

====
